---------------------------- MODULE Spec2Model ----------------------------
(***************************************************************************)
(* Model of neurotic.py: the perceptron playground.  Six scene objects     *)
(* (two switches, two perceptrons, two lights), the global list of         *)
(* connections, the transient connection-drawing state, and the main loop  *)
(* that first drains a batch of pointer events and then recomputes every   *)
(* perceptron and light.                                                   *)
(*                                                                         *)
(* Python lists are sequences; a Python index i is the sequence index i+1. *)
(* target_input_idx keeps the code's 0-based value.  Weights and biases    *)
(* are kept in halves (the integer 2 stands for 1.0, -3 for -1.5), which   *)
(* is exact for the dyadic values used.                                    *)
(***************************************************************************)
EXTENDS Integers, Sequences, FiniteSets

VARIABLES
    rect,                 \* obj -> [x, y, w, h]            (self.rect)
    is_dragging,          \* obj -> BOOLEAN
    drag_offset_x,        \* obj -> Int
    drag_offset_y,        \* obj -> Int
    output_value,         \* switch/perceptron -> 0..1
    num_inputs,           \* perceptron/light -> Nat
    weights,              \* perceptron -> Seq(Int)          (halves)
    bias,                 \* perceptron -> Int               (halves)
    input_values,         \* perceptron -> Seq(0..1)
    input_connections,    \* perceptron/light -> Seq(obj or None)
    input_value,          \* light -> 0..1
    input_nodes_pos,      \* perceptron/light -> Seq(<<x, y>>)
    input_node_rects,     \* perceptron/light -> Seq(rect)   (self._input_node_rects)
    output_node_pos,      \* switch/perceptron -> <<x, y>>
    output_node_rect,     \* switch/perceptron -> rect       (self._output_node_rect)
    plus_button_rect,     \* perceptron -> rect
    minus_button_rect,    \* perceptron -> rect
    toggle_rect,          \* switch -> rect
    connections,          \* Seq([source_obj, target_obj, target_input_idx])
    global_connection_state, \* [is_drawing_connection, connection_start_obj, connection_start_pos]
    running,              \* the main loop's flag
    phase,                \* where the main loop is: "events", "update", "done"
    last                  \* history: the branch taken by the last step

vars == <<rect, is_dragging, drag_offset_x, drag_offset_y, output_value,
          num_inputs, weights, bias, input_values, input_connections,
          input_value, input_nodes_pos, input_node_rects, output_node_pos,
          output_node_rect, plus_button_rect, minus_button_rect, toggle_rect,
          connections, global_connection_state, running, phase, last>>

None == "None"
(* None where the value is otherwise a position or a rect: the empty tuple *)
NoPos  == <<>>
NoRect == <<>>

---------------------------------------------------------------------------
(* The scene *)

all_objects == <<"switch1", "switch2", "perceptron1", "perceptron2", "light1", "light2">>

Switches    == {"switch1", "switch2"}
Perceptrons == {"perceptron1", "perceptron2"}
Lights      == {"light1", "light2"}
Objects     == Switches \cup Perceptrons \cup Lights

max_inputs == 8
min_inputs == 1
input_node_radius  == 5
output_node_radius == 6
button_size   == 15
button_margin == 3
toggle_margin == 8

Max(a, b) == IF a >= b THEN a ELSE b

(* pygame.Rect *)
Rect(x, y, w, h) == [x |-> x, y |-> y, w |-> w, h |-> h]
Right(r)   == r.x + r.w
CenterY(r) == r.y + (r.h \div 2)
collidepoint(r, pos) ==
    /\ r.x <= pos[1] /\ pos[1] < r.x + r.w
    /\ r.y <= pos[2] /\ pos[2] < r.y + r.h

(* The constructor arguments of the six objects *)
InitRect ==
    [o \in Objects |->
        CASE o = "switch1"     -> Rect(50, 50, 40, 40)
          [] o = "switch2"     -> Rect(50, 150, 40, 40)
          [] o = "perceptron1" -> Rect(200, 100, 60, 80)
          [] o = "perceptron2" -> Rect(400, 200, 60, 80)
          [] o = "light1"      -> Rect(600 - 20, 100 - 20, 20 * 2, 20 * 2)
          [] o = "light2"      -> Rect(600 - 20, 250 - 20, 20 * 2, 20 * 2)]

InitNumInputs ==
    [o \in Perceptrons \cup Lights |->
        CASE o = "perceptron1" -> Max(1, 2)
          [] o = "perceptron2" -> Max(1, 1)
          [] OTHER             -> 1]


---------------------------------------------------------------------------
(* The program state as one record, so that a handler is an operator from *)
(* a state to a result [handled, st].                                     *)

St ==
    [rect |-> rect, is_dragging |-> is_dragging,
     drag_offset_x |-> drag_offset_x, drag_offset_y |-> drag_offset_y,
     output_value |-> output_value, num_inputs |-> num_inputs,
     weights |-> weights, bias |-> bias, input_values |-> input_values,
     input_connections |-> input_connections, input_value |-> input_value,
     input_nodes_pos |-> input_nodes_pos, input_node_rects |-> input_node_rects,
     output_node_pos |-> output_node_pos, output_node_rect |-> output_node_rect,
     plus_button_rect |-> plus_button_rect, minus_button_rect |-> minus_button_rect,
     toggle_rect |-> toggle_rect, connections |-> connections,
     global_connection_state |-> global_connection_state,
     running |-> running, last |-> last]

Ret(h, st) == [handled |-> h, st |-> st]

---------------------------------------------------------------------------
(* Port geometry: _update_node_positions of the three classes *)

NodeRect(pos, radius) == Rect(pos[1] - radius, pos[2] - radius, radius * 2, radius * 2)

(* int(input_spacing * (i + 1)) with input_spacing = height / (num_inputs + 1): *)
(* for the fixed height 80 and 1..8 inputs the float product truncates to the   *)
(* integer quotient below.  k is the 1-based node number.                       *)
InputNodeY(r, n, k) == r.y + ((r.h * k) \div (n + 1))

Perceptron_update_node_positions(self, st) ==
    LET r    == st.rect[self]
        n    == st.num_inputs[self]
        inp  == [k \in 1..n |-> <<r.x - input_node_radius, InputNodeY(r, n, k)>>]
        out  == <<Right(r) + output_node_radius, CenterY(r)>>
        plus == Rect(Right(r) - button_margin - button_size, r.y + button_margin,
                     button_size, button_size)
        minus == Rect(plus.x - button_margin - button_size, r.y + button_margin,
                      button_size, button_size)
    IN [st EXCEPT !.input_nodes_pos[self]   = inp,
                  !.output_node_pos[self]   = out,
                  !.input_node_rects[self]  = [k \in 1..n |-> NodeRect(inp[k], input_node_radius)],
                  !.output_node_rect[self]  = NodeRect(out, output_node_radius),
                  !.plus_button_rect[self]  = plus,
                  !.minus_button_rect[self] = minus]

Switch_update_node_positions(self, st) ==
    LET r   == st.rect[self]
        out == <<Right(r) + output_node_radius, CenterY(r)>>
    IN [st EXCEPT !.output_node_pos[self]  = out,
                  !.output_node_rect[self] = NodeRect(out, output_node_radius),
                  !.toggle_rect[self] = Rect(r.x + toggle_margin, r.y + toggle_margin,
                                             st.toggle_rect[self].w, st.toggle_rect[self].h)]

Light_update_node_positions(self, st) ==
    LET r   == st.rect[self]
        inp == << <<r.x - input_node_radius, CenterY(r)>> >>
    IN [st EXCEPT !.input_nodes_pos[self]  = inp,
                  !.input_node_rects[self] = [k \in 1..1 |-> NodeRect(inp[k], input_node_radius)]]

update_node_positions(self, st) ==
    IF self \in Perceptrons THEN Perceptron_update_node_positions(self, st)
    ELSE IF self \in Switches THEN Switch_update_node_positions(self, st)
    ELSE Light_update_node_positions(self, st)

(* get_input_node_rect of Perceptron and of Light; i is the 0-based index; *)
(* the result is <<rect>>, or NoRect for None.                             *)
get_input_node_rect(obj, i, st) ==
    IF obj \in Perceptrons
    THEN IF 0 <= i /\ i < Len(st.input_node_rects[obj])
         THEN <<st.input_node_rects[obj][i + 1]>> ELSE NoRect
    ELSE IF i = 0 /\ Len(st.input_node_rects[obj]) > 0
         THEN <<st.input_node_rects[obj][1]>> ELSE NoRect

(* `input_rect and input_rect.collidepoint(pos)`: None and an empty Rect are falsy *)
RectHit(opt, pos) ==
    /\ opt # NoRect
    /\ opt[1].w # 0 /\ opt[1].h # 0
    /\ collidepoint(opt[1], pos)


---------------------------------------------------------------------------
(* Shared pieces of the handlers *)

Lbl(st, l) == [st EXCEPT !.last = l]

RemoveAt(s, k) == SubSeq(s, 1, k - 1) \o SubSeq(s, k + 1, Len(s))
Pop(s) == SubSeq(s, 1, Len(s) - 1)

(* Faulty variant of RemoveConnection: no break, every entry that targets   *)
(* the object is popped, whatever its input index.                          *)
RemoveConnection_NoBreak(conns, self, i) ==
    SelectSeq(conns, LAMBDA c : c.target_obj # self)

(* Faulty variant of RemoveConnection: the index compared is off by one.    *)
RemoveConnection_OffByOne(conns, self, i) ==
    LET M == {k \in 1..Len(conns) :
                 conns[k].target_obj = self /\ conns[k].target_input_idx = i + 1}
    IN IF M = {} THEN conns
       ELSE RemoveAt(conns, CHOOSE k \in M : \A j \in M : j <= k)

(* for idx in range(len(connections) - 1, -1, -1): ... pop(idx); break      *)
(* the entry popped is the last one in list order that targets (self, i).   *)
RemoveConnection(conns, self, i) ==
    LET M == {k \in 1..Len(conns) :
                 conns[k].target_obj = self /\ conns[k].target_input_idx = i}
    IN IF M = {} THEN conns
       ELSE RemoveAt(conns, CHOOSE k \in M : \A j \in M : j <= k)

(* enumerate(self._input_node_rects): the 1-based number of the first rect *)
(* that contains pos, or 0.                                                *)
FirstInputHit(self, pos, st) ==
    LET H == {k \in 1..Len(st.input_node_rects[self]) :
                 collidepoint(st.input_node_rects[self][k], pos)}
    IN IF H = {} THEN 0 ELSE CHOOSE k \in H : \A j \in H : k <= j

StartDrag(self, event, st) ==
    [st EXCEPT !.is_dragging[self]   = TRUE,
               !.drag_offset_x[self] = st.rect[self].x - event.pos[1],
               !.drag_offset_y[self] = st.rect[self].y - event.pos[2]]

MoveDrag(self, event, st) ==
    update_node_positions(self,
        [st EXCEPT !.rect[self].x = event.pos[1] + st.drag_offset_x[self],
                   !.rect[self].y = event.pos[2] + st.drag_offset_y[self]])

StartConnection(self, st) ==
    [st EXCEPT !.global_connection_state =
        [is_drawing_connection |-> TRUE,
         connection_start_obj  |-> self,
         connection_start_pos  |-> st.output_node_pos[self]]]

---------------------------------------------------------------------------
(* DraggableObject.handle_event *)

DraggableObject_handle_event(self, event, st) ==
    IF event.type = "MOUSEBUTTONDOWN" THEN
        IF collidepoint(st.rect[self], event.pos)
        THEN Ret(TRUE, Lbl(StartDrag(self, event, st), "drag_start"))
        ELSE Ret(FALSE, st)
    ELSE IF event.type = "MOUSEBUTTONUP" THEN
        IF st.is_dragging[self]
        THEN Ret(TRUE, Lbl([st EXCEPT !.is_dragging[self] = FALSE], "drag_stop"))
        ELSE Ret(FALSE, st)
    ELSE IF event.type = "MOUSEMOTION" THEN
        IF st.is_dragging[self]
        THEN Ret(TRUE, Lbl(MoveDrag(self, event, st), "drag_move"))
        ELSE Ret(FALSE, st)
    ELSE Ret(FALSE, st)

---------------------------------------------------------------------------
(* Perceptron.handle_event *)

(* Faulty variant of IncreaseInputs: the max_inputs test is missing.        *)
IncreaseInputs_NoMax(self, w, st) ==
    Lbl(update_node_positions(self,
        [st EXCEPT !.num_inputs[self]        = @ + 1,
                   !.weights[self]           = Append(@, w),
                   !.input_connections[self] = Append(@, None),
                   !.input_values[self]      = Append(@, 0)]), "inc")

(* the '+' button; the new weight w is random.uniform(-1, 1) *)
IncreaseInputs(self, w, st) ==
    IF st.num_inputs[self] < max_inputs
    THEN Lbl(update_node_positions(self,
             [st EXCEPT !.num_inputs[self]        = @ + 1,
                        !.weights[self]           = Append(@, w),
                        !.input_connections[self] = Append(@, None),
                        !.input_values[self]      = Append(@, 0)]), "inc")
    ELSE Lbl(st, "inc_max")

(* Faulty variant of DecreaseInputs: the entry of `connections` that        *)
(* targets the removed input is left in the list.                           *)
DecreaseInputs_KeepsEntry(self, st) ==
    IF st.num_inputs[self] > min_inputs
    THEN LET removed_connection_source ==
                 st.input_connections[self][Len(st.input_connections[self])]
             s1 == [st EXCEPT !.num_inputs[self]        = @ - 1,
                              !.weights[self]           = Pop(@),
                              !.input_connections[self] = Pop(@),
                              !.input_values[self]      = Pop(@)]
         IN update_node_positions(self,
                Lbl(s1, IF removed_connection_source # None
                        THEN "dec_connected" ELSE "dec"))
    ELSE Lbl(st, "dec_min")

(* Faulty variant of DecreaseInputs: the min_inputs test is missing.        *)
DecreaseInputs_NoMin(self, st) ==
    LET n1 == st.num_inputs[self] - 1
        removed_connection_source ==
            st.input_connections[self][Len(st.input_connections[self])]
        s1 == [st EXCEPT !.num_inputs[self]        = n1,
                         !.weights[self]           = Pop(@),
                         !.input_connections[self] = Pop(@),
                         !.input_values[self]      = Pop(@)]
        s2 == IF removed_connection_source # None
              THEN Lbl([s1 EXCEPT !.connections = RemoveConnection(@, self, n1)],
                       "dec_connected")
              ELSE Lbl(s1, "dec")
    IN update_node_positions(self, s2)

(* the '-' button *)
DecreaseInputs(self, st) ==
    IF st.num_inputs[self] > min_inputs
    THEN LET n1 == st.num_inputs[self] - 1
             removed_connection_source ==
                 st.input_connections[self][Len(st.input_connections[self])]
             s1 == [st EXCEPT !.num_inputs[self]        = n1,
                              !.weights[self]           = Pop(@),
                              !.input_connections[self] = Pop(@),
                              !.input_values[self]      = Pop(@)]
             s2 == IF removed_connection_source # None
                   THEN Lbl([s1 EXCEPT !.connections = RemoveConnection(@, self, n1)],
                            "dec_connected")
                   ELSE Lbl(s1, "dec")
         IN update_node_positions(self, s2)
    ELSE Lbl(st, "dec_min")

(* Faulty variant of Perceptron_right_click: a right-click on an input node *)
(* that is not connected is reported as not handled.                        *)
Perceptron_right_click_NotConsumed(self, event, st) ==
    LET k == FirstInputHit(self, event.pos, st)
    IN IF k # 0 /\ st.input_connections[self][k] # None
       THEN Ret(TRUE, Lbl([st EXCEPT !.input_connections[self][k] = None,
                                     !.connections = RemoveConnection(@, self, k - 1)],
                          "rclick_remove"))
       ELSE Ret(FALSE, st)

(* right-click: the first input node rect that contains the position decides *)
(* Faulty variant of Perceptron_right_click: the registry entry is removed *)
(* and the input slot keeps its source.                                    *)
Perceptron_right_click_KeepsSlot(self, event, st) ==
    LET k == FirstInputHit(self, event.pos, st)
    IN IF k = 0 THEN Ret(FALSE, st)
       ELSE IF st.input_connections[self][k] # None
       THEN Ret(TRUE, Lbl([st EXCEPT !.connections = RemoveConnection(@, self, k - 1)],
                          "rclick_remove"))
       ELSE Ret(TRUE, Lbl(st, "rclick_empty"))

Perceptron_right_click(self, event, st) ==
    LET k == FirstInputHit(self, event.pos, st)
    IN IF k = 0 THEN Ret(FALSE, st)
       ELSE IF st.input_connections[self][k] # None
       THEN Ret(TRUE, Lbl([st EXCEPT !.input_connections[self][k] = None,
                                     !.connections = RemoveConnection(@, self, k - 1)],
                          "rclick_remove"))
       ELSE Ret(TRUE, Lbl(st, "rclick_empty"))

(* left-click that hit no button: output node, input nodes, body *)
Perceptron_left_click(self, event, st) ==
    IF collidepoint(st.output_node_rect[self], event.pos)
    THEN Ret(TRUE, Lbl(StartConnection(self, st), "begin_connection"))
    ELSE IF ~st.global_connection_state.is_drawing_connection
            /\ FirstInputHit(self, event.pos, st) # 0
    THEN Ret(TRUE, Lbl(st, "input_click"))
    ELSE IF collidepoint(st.rect[self], event.pos)
    THEN Ret(TRUE, Lbl(StartDrag(self, event, st), "drag_start"))
    ELSE Ret(FALSE, st)

(* Faulty variant of Perceptron_handle_event: the buttons are tested after *)
(* the output node, the input nodes and the body.                           *)
Perceptron_handle_event_ButtonsLast(self, event, w, st) ==
    IF event.type = "MOUSEBUTTONDOWN" THEN
        IF event.button = 3 THEN Perceptron_right_click(self, event, st)
        ELSE IF event.button = 1 THEN
            LET r == Perceptron_left_click(self, event, st)
            IN IF r.handled THEN r
               ELSE IF collidepoint(st.plus_button_rect[self], event.pos)
               THEN Ret(TRUE, IncreaseInputs(self, w, st))
               ELSE IF collidepoint(st.minus_button_rect[self], event.pos)
               THEN Ret(TRUE, DecreaseInputs(self, st))
               ELSE r
        ELSE Ret(FALSE, st)
    ELSE IF event.type = "MOUSEBUTTONUP" THEN
        IF st.is_dragging[self] /\ event.button = 1
        THEN Ret(TRUE, Lbl([st EXCEPT !.is_dragging[self] = FALSE], "drag_stop"))
        ELSE Ret(FALSE, st)
    ELSE IF event.type = "MOUSEMOTION" THEN
        IF st.is_dragging[self]
        THEN Ret(TRUE, Lbl(MoveDrag(self, event, st), "drag_move"))
        ELSE Ret(FALSE, st)
    ELSE Ret(FALSE, st)

Perceptron_handle_event(self, event, w, st) ==
    IF event.type = "MOUSEBUTTONDOWN" /\ event.button = 1
       /\ collidepoint(st.plus_button_rect[self], event.pos)
    THEN Ret(TRUE, IncreaseInputs(self, w, st))
    ELSE IF event.type = "MOUSEBUTTONDOWN" /\ event.button = 1
       /\ collidepoint(st.minus_button_rect[self], event.pos)
    THEN Ret(TRUE, DecreaseInputs(self, st))
    ELSE IF event.type = "MOUSEBUTTONDOWN" THEN
        IF event.button = 3 THEN Perceptron_right_click(self, event, st)
        ELSE IF event.button = 1 THEN Perceptron_left_click(self, event, st)
        ELSE Ret(FALSE, st)
    ELSE IF event.type = "MOUSEBUTTONUP" THEN
        IF st.is_dragging[self] /\ event.button = 1
        THEN Ret(TRUE, Lbl([st EXCEPT !.is_dragging[self] = FALSE], "drag_stop"))
        ELSE Ret(FALSE, st)
    ELSE IF event.type = "MOUSEMOTION" THEN
        IF st.is_dragging[self]
        THEN Ret(TRUE, Lbl(MoveDrag(self, event, st), "drag_move"))
        ELSE Ret(FALSE, st)
    ELSE Ret(FALSE, st)

---------------------------------------------------------------------------
(* Switch.handle_event *)

(* Faulty variant of Switch_handle_event: the toggle test uses the body     *)
(* rect, so a left-click anywhere in the body flips the switch.             *)
Switch_handle_event_BodyToggles(self, event, st) ==
    IF event.type = "MOUSEBUTTONDOWN" THEN
        IF collidepoint(st.output_node_rect[self], event.pos) THEN
            IF event.button = 1
            THEN Ret(TRUE, Lbl(StartConnection(self, st), "begin_connection"))
            ELSE Ret(FALSE, st)
        ELSE IF event.button = 1 THEN
            IF collidepoint(st.rect[self], event.pos) THEN
                IF ~st.global_connection_state.is_drawing_connection
                THEN Ret(TRUE, Lbl([st EXCEPT !.output_value[self] = 1 - @], "toggle"))
                ELSE Ret(FALSE, st)
            ELSE Ret(FALSE, st)
        ELSE IF event.button = 3 THEN
            IF collidepoint(st.rect[self], event.pos)
            THEN Ret(TRUE, Lbl(st, "switch_rclick"))
            ELSE Ret(FALSE, st)
        ELSE Ret(FALSE, st)
    ELSE IF event.type = "MOUSEBUTTONUP" THEN
        IF event.button = 1 /\ st.is_dragging[self]
        THEN Ret(TRUE, Lbl([st EXCEPT !.is_dragging[self] = FALSE], "drag_stop"))
        ELSE Ret(FALSE, st)
    ELSE IF event.type = "MOUSEMOTION" THEN
        IF st.is_dragging[self]
        THEN Ret(TRUE, Lbl(MoveDrag(self, event, st), "drag_move"))
        ELSE Ret(FALSE, st)
    ELSE Ret(FALSE, st)

Switch_handle_event(self, event, st) ==
    IF event.type = "MOUSEBUTTONDOWN" THEN
        IF collidepoint(st.output_node_rect[self], event.pos) THEN
            IF event.button = 1
            THEN Ret(TRUE, Lbl(StartConnection(self, st), "begin_connection"))
            ELSE Ret(FALSE, st)
        ELSE IF event.button = 1 THEN
            IF collidepoint(st.toggle_rect[self], event.pos) THEN
                IF ~st.global_connection_state.is_drawing_connection
                THEN Ret(TRUE, Lbl([st EXCEPT !.output_value[self] = 1 - @], "toggle"))
                ELSE Ret(FALSE, st)
            ELSE IF collidepoint(st.rect[self], event.pos)
            THEN Ret(TRUE, Lbl(StartDrag(self, event, st), "drag_start"))
            ELSE Ret(FALSE, st)
        ELSE IF event.button = 3 THEN
            IF collidepoint(st.rect[self], event.pos)
            THEN Ret(TRUE, Lbl(st, "switch_rclick"))
            ELSE Ret(FALSE, st)
        ELSE Ret(FALSE, st)
    ELSE IF event.type = "MOUSEBUTTONUP" THEN
        IF event.button = 1 /\ st.is_dragging[self]
        THEN Ret(TRUE, Lbl([st EXCEPT !.is_dragging[self] = FALSE], "drag_stop"))
        ELSE Ret(FALSE, st)
    ELSE IF event.type = "MOUSEMOTION" THEN
        IF st.is_dragging[self]
        THEN Ret(TRUE, Lbl(MoveDrag(self, event, st), "drag_move"))
        ELSE Ret(FALSE, st)
    ELSE Ret(FALSE, st)

---------------------------------------------------------------------------
(* Light.handle_event *)

Light_node_click(self, event, st) ==
    LET node_rect == get_input_node_rect(self, 0, st)
    IN IF RectHit(node_rect, event.pos) THEN
           IF event.button = 3 THEN
               IF st.input_connections[self][1] # None
               THEN Ret(TRUE, Lbl([st EXCEPT !.input_connections[self][1] = None,
                                             !.connections = RemoveConnection(@, self, 0)],
                                  "rclick_remove"))
               ELSE Ret(TRUE, Lbl(st, "rclick_empty"))
           ELSE IF event.button = 1 /\ ~st.global_connection_state.is_drawing_connection
           THEN Ret(TRUE, Lbl(st, "input_click"))
           ELSE Ret(FALSE, st)
       ELSE Ret(FALSE, st)

Light_handle_event(self, event, st) ==
    LET drag_handled == DraggableObject_handle_event(self, event, st)
    IN IF drag_handled.handled THEN drag_handled
       ELSE IF event.type = "MOUSEBUTTONDOWN"
       THEN Light_node_click(self, event, drag_handled.st)
       ELSE Ret(FALSE, drag_handled.st)

handle_event(obj, event, w, st) ==
    IF obj \in Perceptrons THEN Perceptron_handle_event(obj, event, w, st)
    ELSE IF obj \in Switches THEN Switch_handle_event(obj, event, st)
    ELSE Light_handle_event(obj, event, st)


---------------------------------------------------------------------------
(* The main loop: one event *)

(* Faulty variant of FindTarget: the release position is tested against    *)
(* the object's body rect and not against its input node rects.             *)
FindTarget_BodyRect(event, st) ==
    LET T == {k \in 1..Len(all_objects) :
                 /\ all_objects[k] \in Perceptrons \cup Lights
                 /\ collidepoint(st.rect[all_objects[k]], event.pos)}
    IN IF T = {} THEN <<0, 0>>
       ELSE <<CHOOSE k \in T : \A j \in T : k <= j, 0>>

(* Global MOUSEBUTTONUP while a connection is being drawn: the first input  *)
(* node, in all_objects order and then in index order, that contains the    *)
(* release position.  <<k, i>>: k the place in all_objects, i the 0-based   *)
(* input index; <<0, 0>> when there is none.                                *)
FindTarget(event, st) ==
    LET Hit(k) == {i \in 0..(st.num_inputs[all_objects[k]] - 1) :
                      RectHit(get_input_node_rect(all_objects[k], i, st), event.pos)}
        T == UNION {{<<k, i>> : i \in Hit(k)} :
                      k \in {j \in 1..Len(all_objects) :
                                all_objects[j] \in Perceptrons \cup Lights}}
    IN IF T = {} THEN <<0, 0>>
       ELSE CHOOSE t \in T : \A u \in T : t[1] < u[1] \/ (t[1] = u[1] /\ t[2] <= u[2])

(* Faulty variant of UpdateConnections: the list is not searched for an    *)
(* entry with the same target, the new entry is always appended.            *)
UpdateConnections_AlwaysAppend(conns, start_obj, target_obj, target_input_index) ==
    Append(conns, [source_obj |-> start_obj, target_obj |-> target_obj,
                   target_input_idx |-> target_input_index])

(* Add/Update global list *)
UpdateConnections(conns, start_obj, target_obj, target_input_index) ==
    LET M == {k \in 1..Len(conns) : /\ conns[k].target_obj = target_obj
                                    /\ conns[k].target_input_idx = target_input_index}
    IN IF M # {}
       THEN [conns EXCEPT ![CHOOSE k \in M : \A j \in M : k <= j].source_obj = start_obj]
       ELSE Append(conns, [source_obj |-> start_obj, target_obj |-> target_obj,
                           target_input_idx |-> target_input_index])

(* Faulty variant of ResetConnectionState: connection_start_obj is kept.    *)
ResetConnectionState_KeepsStart(st) ==
    [st EXCEPT !.global_connection_state.is_drawing_connection = FALSE,
               !.global_connection_state.connection_start_pos  = NoPos]

ResetConnectionState(st) ==
    [st EXCEPT !.global_connection_state =
        [is_drawing_connection |-> FALSE,
         connection_start_obj  |-> None,
         connection_start_pos  |-> NoPos]]

(* Faulty variant of FinalizeConnection: a release on an input node of the  *)
(* object the connection started from is treated as a cancel.               *)
FinalizeConnection_NoSelf(event, st) ==
    LET start_obj == st.global_connection_state.connection_start_obj
        t == FindTarget(event, st)
        target_obj == all_objects[t[1]]
        i == t[2]
        s1 == IF i < Len(st.input_connections[target_obj])
              THEN Lbl([st EXCEPT !.input_connections[target_obj][i + 1] = start_obj],
                       IF st.input_connections[target_obj][i + 1] # None
                       THEN "connect_overwrite" ELSE "connect_new")
              ELSE Lbl(st, "connect_error")
        s2 == [s1 EXCEPT !.connections = UpdateConnections(@, start_obj, target_obj, i)]
    IN IF t[1] = 0 \/ all_objects[Max(t[1], 1)] = start_obj
       THEN ResetConnectionState(Lbl(st, "cancel"))
       ELSE ResetConnectionState(s2)

FinalizeConnection(event, st) ==
    LET start_obj == st.global_connection_state.connection_start_obj
        t == FindTarget(event, st)
        target_obj == all_objects[t[1]]
        i == t[2]
        s1 == IF i < Len(st.input_connections[target_obj])
              THEN Lbl([st EXCEPT !.input_connections[target_obj][i + 1] = start_obj],
                       IF st.input_connections[target_obj][i + 1] # None
                       THEN "connect_overwrite" ELSE "connect_new")
              ELSE Lbl(st, "connect_error")
        s2 == [s1 EXCEPT !.connections = UpdateConnections(@, start_obj, target_obj, i)]
    IN IF t[1] = 0 THEN ResetConnectionState(Lbl(st, "cancel"))
       ELSE ResetConnectionState(s2)

(* Faulty variant of Dispatch: the loop has no break, every object is      *)
(* offered the event.                                                       *)
RECURSIVE Dispatch_NoBreak(_, _, _, _)
Dispatch_NoBreak(k, event, w, st) ==
    IF k = 0 THEN st
    ELSE Dispatch_NoBreak(k - 1, event, w, handle_event(all_objects[k], event, w, st).st)

(* for obj in reversed(all_objects): if obj.handle_event(...): break        *)
(* k is the place in all_objects of the next object to be offered the event *)
RECURSIVE Dispatch(_, _, _, _)
Dispatch(k, event, w, st) ==
    IF k = 0 THEN st
    ELSE LET r == handle_event(all_objects[k], event, w, st)
         IN IF r.handled THEN r.st ELSE Dispatch(k - 1, event, w, r.st)

ProcessEvent(event, w, st) ==
    LET s0 == Lbl(IF event.type = "QUIT" THEN [st EXCEPT !.running = FALSE] ELSE st,
                  IF event.type = "QUIT" THEN "quit" ELSE "unhandled")
    IN IF event.type = "MOUSEBUTTONUP" /\ s0.global_connection_state.is_drawing_connection
       THEN FinalizeConnection(event, s0)
       ELSE Dispatch(Len(all_objects), event, w, s0)

---------------------------------------------------------------------------
(* The main loop: update state *)

(* Faulty variant of step_function: the comparison is strict.               *)
step_function_Strict(x) == IF x > 0 THEN 1 ELSE 0

step_function(x) == IF x >= 0 THEN 1 ELSE 0

(* getattr(source_obj, 'output_value', 0) *)
OutputOf(source_obj, st) ==
    IF source_obj \in DOMAIN st.output_value THEN st.output_value[source_obj] ELSE 0

RECURSIVE SumProducts(_, _, _)
SumProducts(ws, is, k) ==
    IF k = 0 THEN 0 ELSE ws[k] * is[k] + SumProducts(ws, is, k - 1)

Min(a, b) == IF a <= b THEN a ELSE b

(* Faulty variant of calculate_output: the output is computed from the     *)
(* input values read at the previous evaluation, and only then are the      *)
(* sources read.                                                            *)
calculate_output_StaleInputs(self, st) ==
    LET n == st.num_inputs[self]
        current_inputs ==
            [k \in 1..n |->
                IF st.input_connections[self][k] # None
                THEN OutputOf(st.input_connections[self][k], st) ELSE 0]
        weighted_sum == SumProducts(st.weights[self], st.input_values[self], n)
                            + st.bias[self]
    IN [st EXCEPT !.input_values[self] = current_inputs,
                  !.output_value[self] = step_function(weighted_sum)]

calculate_output(self, st) ==
    LET n == st.num_inputs[self]
        current_inputs ==
            [k \in 1..n |->
                IF k <= Len(st.input_connections[self])
                THEN IF st.input_connections[self][k] # None
                     THEN OutputOf(st.input_connections[self][k], st) ELSE 0
                ELSE 0]
        ws == IF Len(st.weights[self]) # n
              THEN [k \in 1..n |-> IF k <= Len(st.weights[self])
                                   THEN st.weights[self][k] ELSE 0]
              ELSE st.weights[self]
        weighted_sum == SumProducts(ws, current_inputs, Min(Len(ws), n)) + st.bias[self]
    IN [st EXCEPT !.input_values[self] = current_inputs,
                  !.weights[self]      = ws,
                  !.output_value[self] = step_function(weighted_sum)]

update_state(self, st) ==
    LET source_obj == st.input_connections[self][1]
    IN [st EXCEPT !.input_value[self] =
            IF source_obj # None THEN OutputOf(source_obj, st) ELSE 0]

(* Faulty variant of PerceptronPass: every perceptron is evaluated on the   *)
(* values of the previous tick.                                             *)
PerceptronPass_Synchronous(k, st) ==
    [st EXCEPT !.input_values = [o \in Perceptrons |-> calculate_output(o, st).input_values[o]],
               !.weights      = [o \in Perceptrons |-> calculate_output(o, st).weights[o]],
               !.output_value = [o \in DOMAIN st.output_value |->
                                    IF o \in Perceptrons
                                    THEN calculate_output(o, st).output_value[o]
                                    ELSE st.output_value[o]]]

(* Faulty variant of PerceptronPass: the objects from place k on are        *)
(* evaluated in reversed order.                                             *)
RECURSIVE PerceptronPass_Reversed(_, _)
PerceptronPass_Reversed(k, st) ==
    IF k > Len(all_objects) THEN st
    ELSE LET s == PerceptronPass_Reversed(k + 1, st)
         IN IF all_objects[k] \in Perceptrons
            THEN calculate_output(all_objects[k], s) ELSE s

(* for obj in all_objects: ...; k is the place in all_objects to do next *)
RECURSIVE PerceptronPass(_, _)
PerceptronPass(k, st) ==
    IF k > Len(all_objects) THEN st
    ELSE PerceptronPass(k + 1, IF all_objects[k] \in Perceptrons
                               THEN calculate_output(all_objects[k], st) ELSE st)

RECURSIVE LightPass(_, _)
LightPass(k, st) ==
    IF k > Len(all_objects) THEN st
    ELSE LightPass(k + 1, IF all_objects[k] \in Lights
                          THEN update_state(all_objects[k], st) ELSE st)

(* Faulty variant of UpdateState: the lights are updated before the         *)
(* perceptrons.                                                             *)
UpdateState_LightsFirst(st) == Lbl(PerceptronPass(1, LightPass(1, st)), "tick")

UpdateState(st) == Lbl(LightPass(1, PerceptronPass(1, st)), "tick")


---------------------------------------------------------------------------
(* Inputs.  The pointer is aimed at what is on screen: an event's position *)
(* is the centre of a button, a node, a toggle area or a body of one of the *)
(* objects in `focus`, as the object is placed at that moment, or one of a  *)
(* few fixed points.  Which object reacts is decided by the handlers' own   *)
(* hit tests on that position.                                              *)

Center(r) == <<r.x + (r.w \div 2), r.y + (r.h \div 2)>>

(* a point of a switch's body outside its toggle area *)
SwitchBodyPoint(r) == <<r.x + 2, r.y + 2>>

MaxAimPort == 2     \* the pointer aims at input nodes 0 .. MaxAimPort - 1

EmptySpace == <<300, 300>>

(* aim: which objects' parts the pointer is aimed at, by part *)
PointerTargets(aim, st) ==
    {Center(st.plus_button_rect[o])  : o \in aim.buttons}
    \cup {Center(st.minus_button_rect[o]) : o \in aim.buttons}
    \cup {st.output_node_pos[o] : o \in aim.outputs}
    \cup UNION {{st.input_nodes_pos[o][k] :
                    k \in 1..Min(MaxAimPort, Len(st.input_nodes_pos[o]))} :
                o \in aim.inputs}
    \cup {Center(st.toggle_rect[o]) : o \in aim.toggles}
    \cup {SwitchBodyPoint(st.rect[o]) : o \in aim.bodies \cap Switches}
    \cup {Center(st.rect[o]) : o \in aim.bodies \ Switches}
    \cup {EmptySpace}

MoveTargets == {EmptySpace}

Buttons == {1, 3}

(* the values random.uniform(-1, 1) is drawn from, in halves *)
WeightVals == {2}
BiasVals   == {-1}

MouseEvent(type, button, pos) == [type |-> type, button |-> button, pos |-> pos]

---------------------------------------------------------------------------
(* Initial state: the objects as constructed at module level *)

InitGeometry(st) ==
    LET Obj(k) == all_objects[k]
        F[k \in 0..Len(all_objects)] ==
            IF k = 0 THEN st ELSE update_node_positions(Obj(k), F[k - 1])
    IN F[Len(all_objects)]

(* the objects as the constructors leave them; ws and bs are the weights    *)
(* and biases of the perceptrons                                            *)
Scene(ws, bs) ==
    InitGeometry(
        [rect |-> InitRect,
         is_dragging   |-> [o \in Objects |-> FALSE],
         drag_offset_x |-> [o \in Objects |-> 0],
         drag_offset_y |-> [o \in Objects |-> 0],
         output_value  |-> [o \in Switches \cup Perceptrons |-> 0],
         num_inputs    |-> InitNumInputs,
         weights |-> ws, bias |-> bs,
         input_values  |-> [o \in Perceptrons |-> [k \in 1..InitNumInputs[o] |-> 0]],
         input_connections |->
             [o \in Perceptrons \cup Lights |-> [k \in 1..InitNumInputs[o] |-> None]],
         input_value   |-> [o \in Lights |-> 0],
         input_nodes_pos   |-> [o \in Perceptrons \cup Lights |-> <<>>],
         input_node_rects  |-> [o \in Perceptrons \cup Lights |-> <<>>],
         output_node_pos   |-> [o \in Switches \cup Perceptrons |-> <<0, 0>>],
         output_node_rect  |-> [o \in Switches \cup Perceptrons |-> Rect(0, 0, 0, 0)],
         plus_button_rect  |-> [o \in Perceptrons |-> Rect(0, 0, button_size, button_size)],
         minus_button_rect |-> [o \in Perceptrons |-> Rect(0, 0, button_size, button_size)],
         toggle_rect |-> [o \in Switches |->
             Rect(InitRect[o].x + toggle_margin, InitRect[o].y + toggle_margin,
                  InitRect[o].w - 2 * toggle_margin, InitRect[o].h - 2 * toggle_margin)],
         connections |-> <<>>,
         global_connection_state |->
             [is_drawing_connection |-> FALSE, connection_start_obj |-> None,
              connection_start_pos |-> NoPos],
         running |-> TRUE, last |-> "init"])

Start(s) ==
    /\ rect = s.rect
    /\ is_dragging = s.is_dragging
    /\ drag_offset_x = s.drag_offset_x
    /\ drag_offset_y = s.drag_offset_y
    /\ output_value = s.output_value
    /\ num_inputs = s.num_inputs
    /\ weights = s.weights
    /\ bias = s.bias
    /\ input_values = s.input_values
    /\ input_connections = s.input_connections
    /\ input_value = s.input_value
    /\ input_nodes_pos = s.input_nodes_pos
    /\ input_node_rects = s.input_node_rects
    /\ output_node_pos = s.output_node_pos
    /\ output_node_rect = s.output_node_rect
    /\ plus_button_rect = s.plus_button_rect
    /\ minus_button_rect = s.minus_button_rect
    /\ toggle_rect = s.toggle_rect
    /\ connections = s.connections
    /\ global_connection_state = s.global_connection_state
    /\ running = s.running
    /\ last = s.last

(* the weight lists of the scene's perceptrons, each value drawn from W *)
WeightLists(W) ==
    {ws \in [Perceptrons -> UNION {[1..InitNumInputs[o] -> W] : o \in Perceptrons}] :
        \A o \in Perceptrons : Len(ws[o]) = InitNumInputs[o]}

Init ==
    /\ \E ws \in WeightLists(WeightVals), bs \in [Perceptrons -> BiasVals] :
           Start(Scene(ws, bs))
    /\ phase = "events"

---------------------------------------------------------------------------
(* Construction of a Perceptron: Perceptron.__init__.  An optional        *)
(* argument is <<>> for None and <<v>> for the value v.                    *)

ObjectFields ==
    {"rect", "is_dragging", "drag_offset_x", "drag_offset_y", "output_value",
     "num_inputs", "weights", "bias", "input_values", "input_connections",
     "input_value", "input_nodes_pos", "input_node_rects", "output_node_pos",
     "output_node_rect", "plus_button_rect", "minus_button_rect", "toggle_rect"}

(* the state with only the objects of S constructed *)
Only(S, st) ==
    [f \in DOMAIN st |->
        IF f \in ObjectFields
        THEN [o \in (DOMAIN st[f]) \cap S |-> st[f][o]]
        ELSE st[f]]

(* the state st with the objects of t added *)
Join(st, t) ==
    [f \in DOMAIN st |->
        IF f \in ObjectFields /\ f \in DOMAIN t
        THEN [o \in (DOMAIN st[f]) \cup (DOMAIN t[f]) |->
                 IF o \in DOMAIN t[f] THEN t[f][o] ELSE st[f][o]]
        ELSE st[f]]

(* the attributes the constructor assigns before _update_node_positions *)
NewPerceptron(self, x, y, n, ws, b) ==
    [rect              |-> [o \in {self} |-> Rect(x, y, 60, 80)],
     is_dragging       |-> [o \in {self} |-> FALSE],
     drag_offset_x     |-> [o \in {self} |-> 0],
     drag_offset_y     |-> [o \in {self} |-> 0],
     num_inputs        |-> [o \in {self} |-> n],
     weights           |-> [o \in {self} |-> ws],
     bias              |-> [o \in {self} |-> b],
     output_value      |-> [o \in {self} |-> 0],
     input_values      |-> [o \in {self} |-> [k \in 1..n |-> 0]],
     input_connections |-> [o \in {self} |-> [k \in 1..n |-> None]],
     plus_button_rect  |-> [o \in {self} |-> Rect(0, 0, button_size, button_size)],
     minus_button_rect |-> [o \in {self} |-> Rect(0, 0, button_size, button_size)],
     input_nodes_pos   |-> [o \in {self} |-> <<>>],
     output_node_pos   |-> [o \in {self} |-> <<0, 0>>],
     input_node_rects  |-> [o \in {self} |-> <<>>],
     output_node_rect  |-> [o \in {self} |-> Rect(0, 0, 0, 0)]]

(* Faulty variant of Perceptron_init: a weight list of the wrong length is *)
(* cut or filled with zeros to the input count, and no error is raised.    *)
Perceptron_init_Pads(self, x, y, count, given_weights, given_bias, rw, rb, st) ==
    LET n  == Max(1, count)
        ws == IF given_weights = <<>> THEN SubSeq(rw, 1, n)
              ELSE [k \in 1..n |-> IF k <= Len(given_weights[1])
                                   THEN given_weights[1][k] ELSE 0]
        b  == IF given_bias = <<>> THEN rb ELSE given_bias[1]
    IN [raised |-> FALSE,
        st |-> update_node_positions(self, Join(st, NewPerceptron(self, x, y, n, ws, b)))]

(* Perceptron(x, y, num_inputs = count, weights, bias) with st the state    *)
(* before the call.  rw and rb are the draws of random.uniform.  The result *)
(* is [raised, st]: on ValueError no object comes back from the call and    *)
(* st is as before.                                                         *)
Perceptron_init(self, x, y, count, given_weights, given_bias, rw, rb, st) ==
    LET n  == Max(1, count)
        ws == IF given_weights = <<>> THEN SubSeq(rw, 1, n) ELSE given_weights[1]
        b  == IF given_bias = <<>> THEN rb ELSE given_bias[1]
    IN IF given_weights # <<>> /\ Len(given_weights[1]) # n
       THEN [raised |-> TRUE, st |-> st]
       ELSE [raised |-> FALSE,
             st |-> update_node_positions(self, Join(st, NewPerceptron(self, x, y, n, ws, b)))]

(* The arguments tried for perceptron1 = Perceptron(200, 100, ...) *)
MaxCtorLen == 3     \* weight lists of length 0 .. MaxCtorLen, and the input counts up to it

(* a negative count, 0, the small counts, and one above max_inputs *)
CtorCounts  == (-1..MaxCtorLen) \cup {max_inputs + 1}
CtorWeights ==
    {<<>>} \cup {<<ws>> : ws \in UNION {[1..l -> WeightVals] : l \in 0..MaxCtorLen}}
CtorBiasVals == {-3, 0}     \* explicit biases -1.5 and 0.0, in halves
CtorBiases  == {<<>>} \cup {<<b>> : b \in CtorBiasVals}
CtorDraws   == [1..Max(max_inputs + 1, MaxCtorLen) -> WeightVals]

(* the module-level construction up to perceptron1: the two switches exist. *)
(* connections, global_connection_state and running, assigned after the     *)
(* constructions, hold the values they are assigned there.                  *)
InitCtor ==
    /\ \E ws \in WeightLists(WeightVals), bs \in [Perceptrons -> BiasVals] :
           Start(Only(Switches, Scene(ws, bs)))
    /\ phase = "construct"

---------------------------------------------------------------------------
(* Actions *)

Install(s) ==
    /\ rect' = s.rect
    /\ is_dragging' = s.is_dragging
    /\ drag_offset_x' = s.drag_offset_x
    /\ drag_offset_y' = s.drag_offset_y
    /\ output_value' = s.output_value
    /\ num_inputs' = s.num_inputs
    /\ weights' = s.weights
    /\ bias' = s.bias
    /\ input_values' = s.input_values
    /\ input_connections' = s.input_connections
    /\ input_value' = s.input_value
    /\ input_nodes_pos' = s.input_nodes_pos
    /\ input_node_rects' = s.input_node_rects
    /\ output_node_pos' = s.output_node_pos
    /\ output_node_rect' = s.output_node_rect
    /\ plus_button_rect' = s.plus_button_rect
    /\ minus_button_rect' = s.minus_button_rect
    /\ toggle_rect' = s.toggle_rect
    /\ connections' = s.connections
    /\ global_connection_state' = s.global_connection_state
    /\ running' = s.running
    /\ last' = s.last

(* Faulty variant of PointerDown: the update of state runs inside the event *)
(* loop, right after the event.                                             *)
PointerDown_Evaluates(button, pos, w) ==
    /\ phase = "events"
    /\ LET s == ProcessEvent(MouseEvent("MOUSEBUTTONDOWN", button, pos), w, St)
       IN Install(Lbl(UpdateState(s), s.last))
    /\ UNCHANGED phase

PointerDown(button, pos, w) ==
    /\ phase = "events"
    /\ Install(ProcessEvent(MouseEvent("MOUSEBUTTONDOWN", button, pos), w, St))
    /\ UNCHANGED phase

PointerUp(button, pos) ==
    /\ phase = "events"
    /\ Install(ProcessEvent(MouseEvent("MOUSEBUTTONUP", button, pos), 0, St))
    /\ UNCHANGED phase

PointerMove(pos) ==
    /\ phase = "events"
    /\ Install(ProcessEvent(MouseEvent("MOUSEMOTION", 0, pos), 0, St))
    /\ UNCHANGED phase

Quit ==
    /\ phase = "events"
    /\ Install(ProcessEvent([type |-> "QUIT"], 0, St))
    /\ UNCHANGED phase

(* the batch of events is drained: update state, then test `running` *)
Update ==
    /\ phase = "events"
    /\ Install(UpdateState(St))
    /\ phase' = IF running THEN "events" ELSE "done"

(* perceptron1 = Perceptron(200, 100, ...): on ValueError the program ends *)
(* with the traceback; otherwise the remaining objects are constructed and *)
(* the main loop starts.                                                    *)
Construct(count, given_weights, given_bias, rw, rb) ==
    /\ phase = "construct"
    /\ LET r == Perceptron_init("perceptron1", 200, 100, count, given_weights,
                                given_bias, rw, rb, St)
       IN IF r.raised
          THEN /\ Install(Lbl(r.st, "ValueError"))
               /\ phase' = "error"
          ELSE /\ \E ws \in WeightLists(WeightVals), bs \in [Perceptrons -> BiasVals] :
                      Install(Lbl(Join(r.st, Only(Objects \ (Switches \cup {"perceptron1"}),
                                                  Scene(ws, bs))), "constructed"))
               /\ phase' = "events"

(* Spec: wiring.  The pointer works perceptron1's buttons and input nodes, *)
(* light1's input node and two output nodes (switch1's and perceptron1's    *)
(* own).                                                                    *)
Aim ==
    [buttons |-> {"perceptron1"},
     outputs |-> {"switch1", "perceptron1"},
     inputs  |-> {"perceptron1", "light1"},
     toggles |-> {},
     bodies  |-> {}]

Next ==
    \/ \E b \in Buttons, p \in PointerTargets(Aim, St), w \in WeightVals :
          PointerDown(b, p, w)
    \/ \E b \in Buttons, p \in PointerTargets(Aim, St) : PointerUp(b, p)
    \/ \E p \in MoveTargets : PointerMove(p)
    \/ Update

Spec == Init /\ [][Next]_vars

(* SpecDrag: dragging.  The pointer works the bodies of one object of each *)
(* class, light1's input node and switch1's output node.                   *)
AimDrag ==
    [buttons |-> {},
     outputs |-> {"switch1"},
     inputs  |-> {"light1"},
     toggles |-> {},
     bodies  |-> {"switch1", "perceptron1", "light1"}]

NextDrag ==
    \/ \E b \in Buttons, p \in PointerTargets(AimDrag, St), w \in WeightVals :
          PointerDown(b, p, w)
    \/ \E b \in Buttons, p \in PointerTargets(AimDrag, St) : PointerUp(b, p)
    \/ \E p \in MoveTargets : PointerMove(p)
    \/ Quit
    \/ Update

SpecDrag == Init /\ [][NextDrag]_vars

(* SpecPorts: input nodes.  The pointer works the input nodes of           *)
(* perceptron1 and light1, two output nodes, switch1's toggle area and the *)
(* body of light1.                                                         *)
AimPorts ==
    [buttons |-> {},
     outputs |-> {"switch1", "perceptron1"},
     inputs  |-> {"perceptron1", "light1"},
     toggles |-> {"switch1"},
     bodies  |-> {"light1"}]

NextPorts ==
    \/ \E b \in Buttons, p \in PointerTargets(AimPorts, St), w \in WeightVals :
          PointerDown(b, p, w)
    \/ \E b \in Buttons, p \in PointerTargets(AimPorts, St) : PointerUp(b, p)
    \/ \E p \in MoveTargets : PointerMove(p)
    \/ Update

SpecPorts == Init /\ [][NextPorts]_vars

(* SpecEval: evaluation.  perceptron1 is constructed with explicit weights *)
(* and bias, Perceptron(200, 100, num_inputs=2, weights=..., bias=...); the *)
(* pointer wires the two switches and perceptron1's own output to          *)
(* perceptron1's input nodes and works the switches' toggle areas.         *)
EvalWeightVals == {-2, 2}     \* -1.0 and 1.0, in halves
EvalBiasVals   == {-3, 0}     \* -1.5 and 0.0, in halves

InitEval ==
    /\ \E ws \in WeightLists(EvalWeightVals), bs \in [Perceptrons -> EvalBiasVals] :
          /\ ws["perceptron2"] = <<2>>
          /\ bs["perceptron2"] = 0
          /\ Start(Scene(ws, bs))
    /\ phase = "events"

AimEval ==
    [buttons |-> {},
     outputs |-> {"switch1", "switch2", "perceptron1"},
     inputs  |-> {"perceptron1"},
     toggles |-> {"switch1", "switch2"},
     bodies  |-> {}]

NextEval ==
    \/ \E p \in PointerTargets(AimEval, St), w \in WeightVals : PointerDown(1, p, w)
    \/ \E p \in PointerTargets(AimEval, St) : PointerUp(1, p)
    \/ Update

SpecEval == InitEval /\ [][NextEval]_vars

(* SpecChain: perceptrons feeding perceptrons.  The pointer wires switch1  *)
(* and the two perceptrons' outputs to the perceptrons' input nodes and    *)
(* works switch1's toggle area.                                            *)
AimChain ==
    [buttons |-> {},
     outputs |-> {"switch1", "perceptron1", "perceptron2"},
     inputs  |-> {"perceptron1", "perceptron2"},
     toggles |-> {"switch1"},
     bodies  |-> {}]

NextChain ==
    \/ \E p \in PointerTargets(AimChain, St), w \in WeightVals : PointerDown(1, p, w)
    \/ \E p \in PointerTargets(AimChain, St) : PointerUp(1, p)
    \/ Update

SpecChain == Init /\ [][NextChain]_vars

(* SpecSwitch: switches.  The pointer works the switches' toggle areas,    *)
(* switch1's body and output node and the body of light1, which is offered *)
(* events before switch1 and can be dragged over it.                       *)
AimSwitch ==
    [buttons |-> {},
     outputs |-> {"switch1"},
     inputs  |-> {},
     toggles |-> {"switch1", "switch2"},
     bodies  |-> {"switch1", "light1"}]

NextSwitch ==
    \/ \E b \in Buttons, p \in PointerTargets(AimSwitch, St), w \in WeightVals :
          PointerDown(b, p, w)
    \/ \E b \in Buttons, p \in PointerTargets(AimSwitch, St) : PointerUp(b, p)
    \/ \E p \in MoveTargets : PointerMove(p)
    \/ Update

SpecSwitch == Init /\ [][NextSwitch]_vars

(* SpecFrame: frames.  The pointer wires switch1 and perceptron1 to        *)
(* perceptron1 and light1 and works switch1's toggle area; QUIT arrives.   *)
AimFrame ==
    [buttons |-> {},
     outputs |-> {"switch1", "perceptron1"},
     inputs  |-> {"perceptron1", "light1"},
     toggles |-> {"switch1"},
     bodies  |-> {}]

NextFrame ==
    \/ \E p \in PointerTargets(AimFrame, St), w \in WeightVals : PointerDown(1, p, w)
    \/ \E p \in PointerTargets(AimFrame, St) : PointerUp(1, p)
    \/ Quit
    \/ Update

SpecFrame == Init /\ [][NextFrame]_vars

(* SpecCtor: construction.  perceptron1 is constructed from arguments drawn *)
(* from CtorCounts, CtorWeights and CtorBiases; after a successful          *)
(* construction the pointer works its buttons and its input nodes.          *)
AimCtor ==
    [buttons |-> {"perceptron1"},
     outputs |-> {"switch1"},
     inputs  |-> {"perceptron1"},
     toggles |-> {},
     bodies  |-> {}]

NextCtor ==
    \/ \E count \in CtorCounts, gw \in CtorWeights, gb \in CtorBiases,
          rw \in CtorDraws, rb \in BiasVals : Construct(count, gw, gb, rw, rb)
    \/ /\ phase = "events"
       /\ \E p \in PointerTargets(AimCtor, St), w \in WeightVals : PointerDown(1, p, w)
    \/ /\ phase = "events"
       /\ \E p \in PointerTargets(AimCtor, St) : PointerUp(1, p)
    \/ Update

SpecCtor == InitCtor /\ [][NextCtor]_vars

(* SpecOverlap: objects on top of each other.  perceptron2 and light1 are *)
(* dragged by their bodies onto perceptron1's first input node, which is    *)
(* wired from switch1; both buttons are used.                               *)
AimOverlap ==
    [buttons |-> {},
     outputs |-> {"switch1"},
     inputs  |-> {"perceptron1"},
     toggles |-> {},
     bodies  |-> {"perceptron2", "light1"}]

OverlapMoveTargets(st) == {st.input_nodes_pos["perceptron1"][1]}

NextOverlap ==
    \/ \E b \in Buttons, p \in PointerTargets(AimOverlap, St), w \in WeightVals :
          PointerDown(b, p, w)
    \/ \E b \in Buttons, p \in PointerTargets(AimOverlap, St) : PointerUp(b, p)
    \/ \E p \in OverlapMoveTargets(St) : PointerMove(p)
    \/ Update

SpecOverlap == Init /\ [][NextOverlap]_vars

---------------------------------------------------------------------------
(* Vocabulary of the properties *)

Place(o) == CHOOSE k \in 1..Len(all_objects) : all_objects[k] = o

Targets == Perceptrons \cup Lights

Drawing == global_connection_state.is_drawing_connection

(* pos is inside the hit region of input node k (1-based) of t *)
OnInputPort(t, k, pos) ==
    /\ k \in 1..Len(input_node_rects[t])
    /\ collidepoint(input_node_rects[t][k], pos)

(* ... and inside that of no input node of t with a lower index *)
ResolvesTo(t, k, pos) ==
    /\ OnInputPort(t, k, pos)
    /\ \A j \in 1..(k - 1) : ~OnInputPort(t, j, pos)

(* ... and inside that of no input node of an object earlier in all_objects *)
FirstTarget(t, k, pos) ==
    /\ ResolvesTo(t, k, pos)
    /\ \A u \in Targets : Place(u) < Place(t) =>
           \A j \in 1..Len(input_node_rects[u]) : ~OnInputPort(u, j, pos)

OnNoInputPort(pos) ==
    \A t \in Targets : \A k \in 1..Len(input_node_rects[t]) : ~OnInputPort(t, k, pos)

(* pos is inside the body or a node of o *)
Covers(o, pos) ==
    \/ collidepoint(rect[o], pos)
    \/ o \in Switches \cup Perceptrons /\ collidepoint(output_node_rect[o], pos)
    \/ o \in Targets /\ \E k \in 1..Len(input_node_rects[o]) : OnInputPort(o, k, pos)

(* no object offered the event before t covers pos *)
Unobstructed(t, pos) == \A o \in Objects : Place(o) > Place(t) => ~Covers(o, pos)

TargetsPort(c, t, k) == c.target_obj = t /\ c.target_input_idx = k - 1

(* the program state after the main loop has processed one more event *)
After(event, w) == ProcessEvent(event, w, St)

Down(button, pos) == MouseEvent("MOUSEBUTTONDOWN", button, pos)
Up(button, pos)   == MouseEvent("MOUSEBUTTONUP", button, pos)

---------------------------------------------------------------------------
(* C1: in every reachable state no two entries of `connections` have the   *)
(* same (target_obj, target_input_idx); and a release that completes a     *)
(* connection on an input node that is already connected replaces the      *)
(* source of the existing entry and leaves the number of entries unchanged. *)

UniqueTargets ==
    \A i, j \in 1..Len(connections) :
        i # j => ~(/\ connections[i].target_obj = connections[j].target_obj
                   /\ connections[i].target_input_idx = connections[j].target_input_idx)

OverwriteReplaces ==
    (phase = "events" /\ Drawing) =>
      \A t \in Targets : \A k \in 1..Len(input_node_rects[t]) :
        input_connections[t][k] # None =>
          \A p \in PointerTargets(Aim, St) :
            FirstTarget(t, k, p) =>
              \A b \in Buttons :
                LET after == After(Up(b, p), 0)
                    start_obj == global_connection_state.connection_start_obj
                IN /\ Len(after.connections) = Len(connections)
                   /\ \E m \in 1..Len(connections) :
                         /\ TargetsPort(connections[m], t, k)
                         /\ after.connections =
                               [connections EXCEPT ![m].source_obj = start_obj]
                   /\ after.input_connections[t][k] = start_obj

C1_RegistryUnique == UniqueTargets /\ OverwriteReplaces

C1_Witness ==
    /\ last = "connect_overwrite"
    /\ Len(connections) >= 2
    /\ \E m \in 1..Len(connections) : connections[m].source_obj = "perceptron1"

---------------------------------------------------------------------------
(* C2: every perceptron has num_inputs within [1, 8] and as many weights   *)
(* and input connection slots as num_inputs, whatever was clicked.          *)

C2_InputCount ==
    \A o \in Perceptrons :
        /\ min_inputs <= num_inputs[o] /\ num_inputs[o] <= max_inputs
        /\ Len(weights[o]) = num_inputs[o]
        /\ Len(input_connections[o]) = num_inputs[o]

(* all the way up with '+', then one '-' *)
C2_Witness ==
    /\ last = "dec"
    /\ num_inputs["perceptron1"] = max_inputs - 1
    /\ Len(weights["perceptron1"]) = max_inputs - 1

---------------------------------------------------------------------------
(* C3: every entry of `connections` targets an input index below its        *)
(* target's num_inputs (1 for a light), also after a '-' that removed the   *)
(* input node an entry targeted.                                            *)

C3_IndexInRange ==
    \A m \in 1..Len(connections) :
        /\ connections[m].target_obj \in Targets
        /\ 0 <= connections[m].target_input_idx
        /\ connections[m].target_input_idx < num_inputs[connections[m].target_obj]

C3_Witness ==
    /\ last = "dec_connected"
    /\ num_inputs["perceptron1"] = 1
    /\ Len(connections) >= 1

---------------------------------------------------------------------------
(* C4: a step that decrements a perceptron whose highest input slot is      *)
(* connected removes exactly one entry of `connections`, the one targeting  *)
(* that perceptron and the removed index; the other entries, the remaining  *)
(* slots of the perceptron and the slots of every other object stay.        *)

DecrementRemovesOne ==
    \A o \in Perceptrons :
        (/\ num_inputs'[o] = num_inputs[o] - 1
         /\ num_inputs[o] > 1
         /\ input_connections[o][num_inputs[o]] # None) =>
            /\ \E m \in 1..Len(connections) :
                  /\ TargetsPort(connections[m], o, num_inputs[o])
                  /\ connections' = RemoveAt(connections, m)
            /\ input_connections'[o] = Pop(input_connections[o])
            /\ \A u \in Targets \ {o} : input_connections'[u] = input_connections[u]

C4_DecrementRemovesOne == [][DecrementRemovesOne]_vars

C4_Witness ==
    /\ last = "dec_connected"
    /\ Len(connections) >= 2
    /\ input_connections["perceptron1"][1] # None

---------------------------------------------------------------------------
(* C5: at most one object has is_dragging set, under any sequence of       *)
(* pointer events.                                                          *)

C5_AtMostOneDragging == Cardinality({o \in Objects : is_dragging[o]}) <= 1

---------------------------------------------------------------------------
(* C6: a step that processes a MOUSEBUTTONUP of button 1 leaves no object   *)
(* dragging that was dragging before it.                                    *)

PrimaryUpStopsDrag ==
    \A o \in Objects :
        (is_dragging[o] /\ \E p \in PointerTargets(AimDrag, St) : PointerUp(1, p))
            => ~is_dragging'[o]

C6_PrimaryUpStopsDrag == [][PrimaryUpStopsDrag]_vars

---------------------------------------------------------------------------
(* C7: a MOUSEBUTTONUP processed while a connection is being drawn leaves   *)
(* the drawing state reset, whether it hit an input node or not.            *)

ResetState ==
    [is_drawing_connection |-> FALSE, connection_start_obj |-> None,
     connection_start_pos |-> NoPos]

C7_ReleaseResets ==
    (phase = "events" /\ Drawing) =>
        \A b \in Buttons, p \in PointerTargets(AimPorts, St) :
            After(Up(b, p), 0).global_connection_state = ResetState

C7_Witness ==
    /\ last \in {"connect_new", "connect_overwrite"}
    /\ global_connection_state = ResetState
    /\ Len(connections) >= 1

---------------------------------------------------------------------------
(* C8: a MOUSEBUTTONUP processed while a connection is being drawn, at a    *)
(* position inside no input node, changes neither `connections` nor any     *)
(* object's input_connections, num_inputs, weights or output_value.         *)

C8_CancelChangesNothing ==
    (phase = "events" /\ Drawing) =>
        \A b \in Buttons, p \in PointerTargets(AimPorts, St) :
            OnNoInputPort(p) =>
                LET after == After(Up(b, p), 0)
                IN /\ after.connections = connections
                   /\ after.input_connections = input_connections
                   /\ after.num_inputs = num_inputs
                   /\ after.weights = weights
                   /\ after.output_value = output_value

C8_Witness ==
    /\ last = "cancel"
    /\ Len(connections) >= 1
    /\ output_value["perceptron1"] = 1
    /\ \E o \in Objects : is_dragging[o]

---------------------------------------------------------------------------
(* C9: a right-click on an input node of a perceptron or light that is not  *)
(* connected, offered to that object, is handled by it and changes neither  *)
(* `connections` nor any input_connections nor any is_dragging.             *)

C9_RightClickEmpty ==
    phase = "events" =>
      \A t \in Targets : \A k \in 1..Len(input_node_rects[t]) :
        input_connections[t][k] = None =>
          \A p \in PointerTargets(AimPorts, St) :
            (ResolvesTo(t, k, p) /\ Unobstructed(t, p)) =>
                LET after == After(Down(3, p), 0)
                IN /\ handle_event(t, Down(3, p), 0, St).handled
                   /\ after.connections = connections
                   /\ after.input_connections = input_connections
                   /\ after.is_dragging = is_dragging

C9_Witness ==
    /\ last = "rclick_empty"
    /\ Len(connections) >= 1
    /\ \E o \in Objects : is_dragging[o]

---------------------------------------------------------------------------
(* C10: a right-click on a connected input node (t, k), offered to t, sets  *)
(* that slot to None and removes exactly the entry of `connections` that    *)
(* targets it; every other entry and slot is unchanged.                     *)

C10_RightClickRemoves ==
    phase = "events" =>
      \A t \in Targets : \A k \in 1..Len(input_node_rects[t]) :
        input_connections[t][k] # None =>
          \A p \in PointerTargets(AimPorts, St) :
            (ResolvesTo(t, k, p) /\ Unobstructed(t, p)) =>
                LET after == After(Down(3, p), 0)
                IN /\ after.input_connections =
                         [input_connections EXCEPT ![t][k] = None]
                   /\ \E m \in 1..Len(connections) :
                         /\ TargetsPort(connections[m], t, k)
                         /\ after.connections = RemoveAt(connections, m)

C10_Witness ==
    /\ last = "rclick_remove"
    /\ Len(connections) >= 2

---------------------------------------------------------------------------
(* C11: after a tick a perceptron's output_value is 1 when the sum over its *)
(* inputs of weights[i] times the value of the input's source (0 for an     *)
(* empty slot), plus bias, is >= 0, and 0 otherwise.  The value of a source *)
(* is its output_value when the perceptron is evaluated: for a perceptron   *)
(* earlier in all_objects the value of this tick, for any other source the  *)
(* value before the tick.  In particular with weights [1, 1], bias -1.5 and *)
(* two switches as sources the output is the AND of the switches' values.   *)

(* the value perceptron o reads from input k (1-based) during the tick that *)
(* leads to `after`                                                         *)
ValueRead(o, k, after) ==
    LET source_obj == input_connections[o][k]
    IN IF source_obj = None THEN 0
       ELSE IF source_obj \in Perceptrons /\ Place(source_obj) < Place(o)
       THEN after.output_value[source_obj]
       ELSE output_value[source_obj]

WeightedSum(o, after) ==
    LET S[k \in 0..num_inputs[o]] ==
            IF k = 0 THEN bias[o] ELSE S[k - 1] + weights[o][k] * ValueRead(o, k, after)
    IN S[num_inputs[o]]

Threshold ==
    LET after == UpdateState(St)
    IN \A o \in Perceptrons :
          after.output_value[o] = (IF WeightedSum(o, after) >= 0 THEN 1 ELSE 0)

IsAndGate(o) ==
    /\ weights[o] = <<2, 2>>
    /\ bias[o] = -3
    /\ input_connections[o] \in [1..2 -> Switches]

AndGate ==
    LET after == UpdateState(St)
    IN \A o \in Perceptrons :
          IsAndGate(o) =>
              after.output_value[o] =
                  (IF /\ output_value[input_connections[o][1]] = 1
                      /\ output_value[input_connections[o][2]] = 1
                   THEN 1 ELSE 0)

C11_Threshold == phase = "events" => (Threshold /\ AndGate)

C11_Witness ==
    /\ last = "tick"
    /\ IsAndGate("perceptron1")
    /\ input_connections["perceptron1"] = <<"switch1", "switch2">>
    /\ output_value["switch1"] = 1
    /\ output_value["switch2"] = 1
    /\ output_value["perceptron1"] = 1

---------------------------------------------------------------------------
(* C12: the chain switch A -> perceptron P -> perceptron Q, P before Q in   *)
(* all_objects.  A is flipped and the tick T follows with no other event.   *)

(* P's only source is A, Q's only source is P *)
Chain(A, P, Q) ==
    /\ input_connections[P][1] = A
    /\ \A k \in 2..num_inputs[P] : input_connections[P][k] = None
    /\ num_inputs[Q] = 1
    /\ input_connections[Q][1] = P

(* the state after A's toggle area is clicked *)
Flipped(A) == After(Down(1, Center(toggle_rect[A])), 0)

(* the output of perceptron o when its first input has value v and the      *)
(* others 0                                                                 *)
OutputFor(o, v) == IF weights[o][1] * v + bias[o] >= 0 THEN 1 ELSE 0

(* As claimed: P takes its new value at tick T and Q does not reflect it at *)
(* tick T (Q's output is the one for P's value before the tick), only at    *)
(* tick T + 1.                                                              *)
C12_LagOfOneTick ==
    (phase = "events" /\ ~Drawing) =>
        \A A \in Switches, P, Q \in Perceptrons :
            (Place(P) < Place(Q) /\ Chain(A, P, Q)) =>
                LET flipped == Flipped(A)
                    tickT   == UpdateState(flipped)
                    tickT1  == UpdateState(tickT)
                IN /\ flipped.output_value[A] = 1 - output_value[A]
                   /\ tickT.output_value[P] = OutputFor(P, flipped.output_value[A])
                   /\ tickT.output_value[Q] = OutputFor(Q, output_value[P])
                   /\ tickT1.output_value[Q] = OutputFor(Q, tickT.output_value[P])

(* As amended: P takes its new value at tick T and Q reflects P's new value *)
(* at the same tick T.                                                      *)
C12_NoLagInListOrder ==
    (phase = "events" /\ ~Drawing) =>
        \A A \in Switches, P, Q \in Perceptrons :
            (Place(P) < Place(Q) /\ Chain(A, P, Q)) =>
                LET flipped == Flipped(A)
                    tickT   == UpdateState(flipped)
                IN /\ flipped.output_value[A] = 1 - output_value[A]
                   /\ tickT.output_value[P] = OutputFor(P, flipped.output_value[A])
                   /\ tickT.output_value[Q] = OutputFor(Q, tickT.output_value[P])

C12_Witness ==
    /\ last = "tick"
    /\ Chain("switch1", "perceptron1", "perceptron2")
    /\ output_value["switch1"] = 1
    /\ output_value["perceptron1"] = 1
    /\ input_values["perceptron2"] = <<1>>
    /\ output_value["perceptron2"] = 1

---------------------------------------------------------------------------
(* C13: in the perceptron pass, the value a perceptron reads from an input  *)
(* whose source is another perceptron is the source's output_value of this  *)
(* tick when the source is earlier in all_objects, and the source's         *)
(* output_value of the previous tick when the source is later.              *)

C13_ReadByListOrder ==
    phase = "events" =>
        LET after == UpdateState(St)
        IN \A o \in Perceptrons : \A k \in 1..num_inputs[o] :
              LET source_obj == input_connections[o][k]
              IN (source_obj \in Perceptrons \ {o}) =>
                    after.input_values[o][k] =
                        IF Place(source_obj) < Place(o)
                        THEN after.output_value[source_obj]
                        ELSE output_value[source_obj]

(* perceptron2 feeds perceptron1 and perceptron1 feeds perceptron2; in the  *)
(* last tick perceptron1 read perceptron2's earlier value 0 and perceptron2  *)
(* read the 1 perceptron1 had just computed                                  *)
C13_Witness ==
    /\ last = "tick"
    /\ input_connections["perceptron1"][2] = "perceptron2"
    /\ input_connections["perceptron2"][1] = "perceptron1"
    /\ input_values["perceptron1"][2] = 0
    /\ output_value["perceptron1"] = 1
    /\ input_values["perceptron2"][1] = 1
    /\ output_value["perceptron2"] = 1

---------------------------------------------------------------------------
(* C14: a switch's output_value changes only on a left-button press inside  *)
(* its toggle area while no connection is being drawn, and then becomes     *)
(* 1 - output_value, so two such presses restore the value.  A press in the *)
(* body outside the toggle area, on the output node or with the right       *)
(* button, a release, a motion and the tick never change it.                *)

InToggle(s, pos) == collidepoint(toggle_rect[s], pos)

SwitchChangesOnlyOnToggle ==
    \A s \in Switches : \A p \in PointerTargets(AimSwitch, St) :
        /\ \A b \in Buttons :
              LET after == After(Down(b, p), 0)
              IN /\ after.output_value[s] # output_value[s] =>
                       /\ b = 1 /\ InToggle(s, p) /\ ~Drawing
                       /\ after.output_value[s] = 1 - output_value[s]
                 /\ (b = 1 /\ InToggle(s, p) /\ ~Drawing /\ Unobstructed(s, p)) =>
                       after.output_value[s] = 1 - output_value[s]
                 /\ (b = 3 \/ ~InToggle(s, p) \/ Drawing) =>
                       after.output_value[s] = output_value[s]
        /\ \A b \in Buttons : After(Up(b, p), 0).output_value[s] = output_value[s]
        /\ After(MouseEvent("MOUSEMOTION", 0, p), 0).output_value[s] = output_value[s]
        /\ UpdateState(St).output_value[s] = output_value[s]

ToggleTwiceRestores ==
    \A s \in Switches : \A p \in PointerTargets(AimSwitch, St) :
        LET once  == After(Down(1, p), 0)
            twice == ProcessEvent(Down(1, p), 0, once)
        IN (once.output_value[s] # output_value[s]
              /\ twice.output_value[s] # once.output_value[s]) =>
                 twice.output_value[s] = output_value[s]

C14_SwitchToggle ==
    phase = "events" => (SwitchChangesOnlyOnToggle /\ ToggleTwiceRestores)

(* switch1 is back at its first value after a toggle, and it is dragged *)
C14_Witness ==
    /\ last = "toggle"
    /\ output_value["switch1"] = 0
    /\ rect["switch1"] # InitRect["switch1"]

---------------------------------------------------------------------------
(* C15: a connection drawn from a perceptron's output node and released on  *)
(* one of its own input nodes is made like any other: the slot is set to    *)
(* the perceptron itself and `connections` holds an entry with source and   *)
(* target the same.  On every later tick the perceptron reads, for that     *)
(* input, its own output_value from before the tick.                        *)

SelfEntry(o, k) == [source_obj |-> o, target_obj |-> o, target_input_idx |-> k - 1]

SelfConnectionMade ==
    Drawing =>
        LET o == global_connection_state.connection_start_obj
        IN o \in Perceptrons =>
             \A k \in 1..num_inputs[o] : \A p \in PointerTargets(AimEval, St) :
                FirstTarget(o, k, p) =>
                    LET after == After(Up(1, p), 0)
                    IN /\ after.input_connections =
                              [input_connections EXCEPT ![o][k] = o]
                       /\ Cardinality({m \in 1..Len(after.connections) :
                                          after.connections[m] = SelfEntry(o, k)}) = 1
                       /\ Len(after.connections) =
                              Len(connections) + (IF input_connections[o][k] = None
                                                  THEN 1 ELSE 0)
                       /\ ~after.global_connection_state.is_drawing_connection

SelfConnectionRead ==
    LET after == UpdateState(St)
    IN \A o \in Perceptrons : \A k \in 1..num_inputs[o] :
          input_connections[o][k] = o =>
              /\ after.input_values[o][k] = output_value[o]
              /\ after.output_value[o] = (IF WeightedSum(o, after) >= 0 THEN 1 ELSE 0)

C15_SelfConnection ==
    phase = "events" => (SelfConnectionMade /\ SelfConnectionRead)

(* perceptron1 feeds itself through a weight of -1.0 with bias 0: in the    *)
(* last tick it read its own 1 and now outputs 0                            *)
C15_Witness ==
    /\ last = "tick"
    /\ input_connections["perceptron1"] = <<"perceptron1", None>>
    /\ SelfEntry("perceptron1", 1) \in {connections[m] : m \in 1..Len(connections)}
    /\ weights["perceptron1"][1] = -2
    /\ bias["perceptron1"] = 0
    /\ input_values["perceptron1"][1] = 1
    /\ output_value["perceptron1"] = 0

---------------------------------------------------------------------------
(* C16: within a frame the events are applied one at a time, and the update *)
(* of state runs once, after the last event of the frame, on the state the  *)
(* events produced.  No step that applies an event evaluates anything; the  *)
(* main loop ends only with the update that closes the frame in which QUIT  *)
(* arrived.                                                                 *)

Evaluated ==
    <<[o \in Perceptrons |-> output_value[o]], input_values, input_value>>

FrameOrder ==
    /\ last' # "tick" => (Evaluated' = Evaluated /\ phase' = "events")
    /\ last' = "tick" =>
          LET after == UpdateState(St)
          IN /\ output_value' = after.output_value
             /\ input_values' = after.input_values
             /\ input_value'  = after.input_value
             /\ phase' = (IF running THEN "events" ELSE "done")
    /\ phase' = "done" => (last' = "tick" /\ ~running)

---------------------------------------------------------------------------
(* C17: at the end of every tick each light's input_value is the            *)
(* output_value, as the tick leaves it, of the object in its input slot, or *)
(* 0 when the slot is empty; the tick changes neither `connections` nor any *)
(* input_connections.                                                       *)

C17_LightFollowsSource ==
    phase = "events" =>
        LET after == UpdateState(St)
        IN /\ \A l \in Lights :
                 after.input_value[l] =
                     IF input_connections[l][1] = None THEN 0
                     ELSE after.output_value[input_connections[l][1]]
           /\ after.connections = connections
           /\ after.input_connections = input_connections

(* in the last tick perceptron1 rose to 1 on the value it read from         *)
(* switch1, and light1 shows that 1                                         *)
C17_Witness ==
    /\ last = "tick"
    /\ input_connections["light1"][1] = "perceptron1"
    /\ input_connections["perceptron1"] = <<"switch1", None>>
    /\ output_value["switch1"] = 1
    /\ output_value["perceptron1"] = 1
    /\ input_value["light1"] = 1
    /\ Len(connections) = 2

---------------------------------------------------------------------------
(* C18: a left-button press on a perceptron's '+' button when num_inputs is *)
(* max_inputs, or on its '-' button when num_inputs is min_inputs, is       *)
(* handled by the perceptron and changes nothing: num_inputs, weights,      *)
(* input_connections, `connections`, the drag flags and                     *)
(* global_connection_state stay as they are.                                *)

(* a left-button press at pos is handled by perceptron o and changes nothing *)
ConsumedUnchanged(o, pos) ==
    \A w \in WeightVals :
        LET after == After(Down(1, pos), w)
        IN /\ handle_event(o, Down(1, pos), w, St).handled
           /\ after.num_inputs = num_inputs
           /\ after.weights = weights
           /\ after.input_values = input_values
           /\ after.input_connections = input_connections
           /\ after.connections = connections
           /\ after.is_dragging = is_dragging
           /\ after.global_connection_state = global_connection_state

C18_LimitsConsumed ==
    phase = "events" =>
        \A o \in Perceptrons :
            /\ (num_inputs[o] = max_inputs
                  /\ Unobstructed(o, Center(plus_button_rect[o]))) =>
                     ConsumedUnchanged(o, Center(plus_button_rect[o]))
            /\ (num_inputs[o] = min_inputs
                  /\ Unobstructed(o, Center(minus_button_rect[o]))) =>
                     ConsumedUnchanged(o, Center(minus_button_rect[o]))

(* '+' has just been pressed at eight inputs, with a connection being drawn *)
(* and an entry in `connections`                                            *)
C18_Witness ==
    /\ last = "inc_max"
    /\ num_inputs["perceptron1"] = max_inputs
    /\ Drawing
    /\ Len(connections) >= 1

---------------------------------------------------------------------------
(* C19 *)

CtorCall(count, given_weights, given_bias, rw, rb) ==
    Perceptron_init("perceptron1", 200, 100, count, given_weights, given_bias, rw, rb, St)

(* the call raised, and the state holds no perceptron1 and is as before the call *)
FailsWithoutPerceptron(r) ==
    /\ r.raised
    /\ r.st = St
    /\ "perceptron1" \notin DOMAIN r.st.weights

(* when the call returns, the new Perceptron carries the weights as given *)
KeepsGivenWeights(r, given_weights) ==
    ~r.raised => /\ "perceptron1" \in DOMAIN r.st.weights
                 /\ r.st.weights["perceptron1"] = given_weights[1]

(* after the error the program has ended and there is no perceptron1 *)
ErrorEndsProgram ==
    last = "ValueError" => phase = "error" /\ "perceptron1" \notin DOMAIN num_inputs

(* C19 as stated: constructing a Perceptron with an explicit weight list    *)
(* whose length differs from the requested input count raises an error and *)
(* yields no Perceptron, and the weights are never cut or padded.          *)
C19_MismatchWithRequestedFails ==
    /\ ErrorEndsProgram
    /\ phase = "construct" =>
         \A count \in CtorCounts, gw \in CtorWeights \ {<<>>}, gb \in CtorBiases,
            rw \in CtorDraws, rb \in BiasVals :
             LET r == CtorCall(count, gw, gb, rw, rb)
             IN /\ Len(gw[1]) # count => FailsWithoutPerceptron(r)
                /\ KeepsGivenWeights(r, gw)

(* C19, amended: constructing a Perceptron with an explicit weight list    *)
(* whose length differs from the input count the Perceptron gets, which is *)
(* the requested count or 1 when the request is lower, raises an error and *)
(* yields no Perceptron, and the weights are never cut or padded.          *)
C19_MismatchFails ==
    /\ ErrorEndsProgram
    /\ phase = "construct" =>
         \A count \in CtorCounts, gw \in CtorWeights \ {<<>>}, gb \in CtorBiases,
            rw \in CtorDraws, rb \in BiasVals :
             LET r == CtorCall(count, gw, gb, rw, rb)
             IN /\ Len(gw[1]) # Max(1, count) => FailsWithoutPerceptron(r)
                /\ KeepsGivenWeights(r, gw)

(* the construction has raised: the program ended with the two switches only *)
C19_Witness ==
    /\ last = "ValueError"
    /\ phase = "error"
    /\ DOMAIN rect = Switches
    /\ "perceptron1" \notin DOMAIN weights

---------------------------------------------------------------------------
(* C20: no object has is_dragging set while a connection is being drawn:  *)
(* in every reachable state is_drawing_connection implies that             *)
(* is_dragging is False for all objects.                                   *)

C20_NoDragWhileDrawing == Drawing => \A o \in Objects : ~is_dragging[o]

---------------------------------------------------------------------------
(* C21: a left-button press on an output node while a connection is being *)
(* drawn does not begin a new connection: connection_start_obj and         *)
(* connection_start_pos keep the values of the first begin.                *)

C21_NoSecondBegin ==
    (phase = "events" /\ Drawing) =>
        \A o \in Switches \cup Perceptrons :
            LET after == After(Down(1, output_node_pos[o]), 0)
            IN /\ after.global_connection_state.connection_start_obj
                      = global_connection_state.connection_start_obj
               /\ after.global_connection_state.connection_start_pos
                      = global_connection_state.connection_start_pos

---------------------------------------------------------------------------
(* C22: the registry and the input slots mirror each other: connections   *)
(* holds an entry (source s, target t, index i) if and only if             *)
(* t.input_connections[i] is s, for every perceptron and light t and every *)
(* index i below t.num_inputs.                                             *)

InRegistry(s, t, i) ==
    \E j \in 1..Len(connections) :
        /\ connections[j].source_obj = s
        /\ connections[j].target_obj = t
        /\ connections[j].target_input_idx = i

C22_RegistryMirrorsSlots ==
    \A t \in Perceptrons \cup Lights :
        /\ Len(input_connections[t]) = num_inputs[t]
        /\ \A k \in 1..num_inputs[t], s \in Objects :
               InRegistry(s, t, k - 1) <=> input_connections[t][k] = s

(* a connection was removed with the right button and two others remain *)
C22_Witness ==
    /\ last = "rclick_remove"
    /\ Len(connections) >= 2
    /\ \E k \in 1..num_inputs["perceptron1"] : input_connections["perceptron1"][k] = None
    /\ \E k \in 1..num_inputs["perceptron1"] : input_connections["perceptron1"][k] # None

---------------------------------------------------------------------------
(* C23 *)

(* the attributes of o the claim speaks of, in state s *)
ObjState(o, s) ==
    <<s.is_dragging[o], s.rect[o],
      IF o \in DOMAIN s.output_value THEN s.output_value[o] ELSE 0,
      IF o \in DOMAIN s.num_inputs THEN s.num_inputs[o] ELSE 0,
      IF o \in DOMAIN s.input_connections THEN s.input_connections[o] ELSE <<>> >>

Reacts(o, after) == ObjState(o, after) # ObjState(o, St)

(* o's handler, offered the event in the present state, reports handled *)
Handles(o, event) == handle_event(o, event, 0, St).handled

(* the pointer events at the positions of aim, without the releases that  *)
(* complete or cancel a connection                                         *)
DispatchedEvents(aim) ==
    {e \in {Down(b, p) : b \in Buttons, p \in PointerTargets(aim, St)}
           \cup {Up(b, p) : b \in Buttons, p \in PointerTargets(aim, St)}
           \cup {MouseEvent("MOUSEMOTION", 0, p) : p \in PointerTargets(aim, St)} :
        ~(e.type = "MOUSEBUTTONUP" /\ Drawing)}

(* only the first object, from the last of all_objects to the first, that *)
(* reports handled reacts to the event                                     *)
OnlyFirstHandlerReacts(event) ==
    \A o \in Objects :
        Reacts(o, After(event, 0)) =>
            /\ Handles(o, event)
            /\ \A o2 \in Objects : Handles(o2, event) => Place(o2) <= Place(o)

(* C23 as stated: a pointer event that is not a release completing a      *)
(* connection is applied by at most one object, the first from the end of  *)
(* all_objects that reports handled; and when two objects' regions overlap *)
(* at the position of a press, only the one later in all_objects reacts.   *)
C23_OnlyLaterOfOverlappingReacts ==
    phase = "events" =>
        \A e \in DispatchedEvents(AimOverlap) :
            /\ OnlyFirstHandlerReacts(e)
            /\ \A o1, o2 \in Objects :
                   (/\ e.type = "MOUSEBUTTONDOWN"
                    /\ Place(o1) < Place(o2) /\ Covers(o1, e.pos) /\ Covers(o2, e.pos))
                       => ~Reacts(o1, After(e, 0))

(* C23, amended: a pointer event that is not a release completing a        *)
(* connection is applied by at most one object, the first from the end of  *)
(* all_objects that reports handled; and when two objects' regions overlap *)
(* at the position of a left-button press made while no connection is      *)
(* being drawn, only the one later in all_objects reacts.                  *)
C23_OnlyFirstHandlerReacts ==
    phase = "events" =>
        \A e \in DispatchedEvents(AimOverlap) :
            /\ OnlyFirstHandlerReacts(e)
            /\ \A o1, o2 \in Objects :
                   (/\ e.type = "MOUSEBUTTONDOWN" /\ e.button = 1 /\ ~Drawing
                    /\ Place(o1) < Place(o2) /\ Covers(o1, e.pos) /\ Covers(o2, e.pos))
                       => ~Reacts(o1, After(e, 0))

(* perceptron2 lies over perceptron1's first input node, and both          *)
(* perceptron2 and light1 are being dragged: a move was applied by light1  *)
(* alone, and the next release or move is again handled by both            *)
C23_Witness ==
    /\ last = "drag_move"
    /\ is_dragging["perceptron2"] /\ is_dragging["light1"]
    /\ rect["light1"] # InitRect["light1"]
    /\ Covers("perceptron2", input_nodes_pos["perceptron1"][1])
    /\ Covers("light1", input_nodes_pos["perceptron1"][1])
    /\ \E e \in DispatchedEvents(AimOverlap) :
           /\ Handles("perceptron2", e) /\ Handles("light1", e)
           /\ Reacts("light1", After(e, 0))

---------------------------------------------------------------------------
(* C24 *)

(* the corners and the centre of a rect *)
RectPoints(r) ==
    {<<r.x, r.y>>, <<r.x + r.w - 1, r.y>>, <<r.x, r.y + r.h - 1>>,
     <<r.x + r.w - 1, r.y + r.h - 1>>, Center(r)}

ButtonHit(o, pos) ==
    \/ collidepoint(plus_button_rect[o], pos)
    \/ collidepoint(minus_button_rect[o], pos)

PortHit(o, pos) ==
    \/ o \in Switches \cup Perceptrons /\ collidepoint(output_node_rect[o], pos)
    \/ o \in Targets /\ \E k \in 1..Len(input_node_rects[o]) : OnInputPort(o, k, pos)

(* the points tried on object o: its buttons, its ports and its body *)
HitPoints(o) ==
    (IF o \in Perceptrons
     THEN RectPoints(plus_button_rect[o]) \cup RectPoints(minus_button_rect[o]) ELSE {})
    \cup (IF o \in Switches \cup Perceptrons THEN RectPoints(output_node_rect[o]) ELSE {})
    \cup (IF o \in Targets
          THEN UNION {RectPoints(input_node_rects[o][k]) : k \in 1..Len(input_node_rects[o])}
          ELSE {})
    \cup RectPoints(rect[o])

(* C24: a left-button press that hits a Perceptron's '+' or '-' button is  *)
(* taken by the button: it does not change is_drawing_connection and does  *)
(* not set that Perceptron's is_dragging; a left-button press that hits an *)
(* object's own output node or input node does not set that object's       *)
(* is_dragging.                                                            *)
C24_HitOrder ==
    phase = "events" =>
        \A o \in Objects : \A pos \in HitPoints(o) :
            LET own   == handle_event(o, Down(1, pos), 0, St)
                after == After(Down(1, pos), 0)
            IN /\ (o \in Perceptrons /\ ButtonHit(o, pos)) =>
                      /\ own.handled
                      /\ own.st.global_connection_state = global_connection_state
                      /\ own.st.is_dragging[o] = is_dragging[o]
                      /\ after.is_dragging[o] = is_dragging[o]
               /\ PortHit(o, pos) =>
                      /\ own.st.is_dragging[o] = is_dragging[o]
                      /\ after.is_dragging[o] = is_dragging[o]

(* '+' was pressed on perceptron1, whose buttons lie inside its body: no   *)
(* connection is being drawn and perceptron1 is not being dragged          *)
C24_Witness ==
    /\ last = "inc"
    /\ num_inputs["perceptron1"] = 3
    /\ collidepoint(rect["perceptron1"], Center(plus_button_rect["perceptron1"]))
    /\ ~Drawing
    /\ ~is_dragging["perceptron1"]

---------------------------------------------------------------------------
(* C25: for every object with is_dragging set, after a MOUSEMOTION event  *)
(* the origin of its rect is the pointer position plus the offset recorded *)
(* when the drag started, and its node positions, node rects, toggle rect  *)
(* and button rects are those that _update_node_positions derives from the *)
(* new rect and the present num_inputs.                                    *)

Motion(pos) == MouseEvent("MOUSEMOTION", 0, pos)

FollowsPointer(o, pos, after) ==
    /\ after.rect[o].x = pos[1] + drag_offset_x[o]
    /\ after.rect[o].y = pos[2] + drag_offset_y[o]

GeometryDerived(o, s) == update_node_positions(o, s) = s

C25_DragFollowsPointer ==
    phase = "events" =>
        \A pos \in PointerTargets(AimDrag, St) \cup MoveTargets :
            LET after == After(Motion(pos), 0)
            IN \A o \in Objects :
                   is_dragging[o] => FollowsPointer(o, pos, after) /\ GeometryDerived(o, after)

---------------------------------------------------------------------------
(* C26 *)

MaxTicks == 4     \* the ticks that are run ahead without events

(* the state after j updates of state with no event in between; each    *)
(* tick's state is drawn from a singleton, so that it is computed once   *)
RECURSIVE Ticks(_, _)
Ticks(j, st) ==
    IF j = 0 THEN st
    ELSE CHOOSE t \in {UpdateState(s) : s \in {Ticks(j - 1, st)}} : TRUE

(* the perceptrons wired to an input of perceptron o *)
PerceptronSources(o) ==
    {s \in Perceptrons : \E k \in 1..num_inputs[o] : input_connections[o][k] = s}

RECURSIVE Upstream(_, _)
Upstream(o, n) ==
    IF n = 0 THEN {}
    ELSE PerceptronSources(o) \cup UNION {Upstream(s, n - 1) : s \in PerceptronSources(o)}

Acyclic == \A o \in Perceptrons : o \notin Upstream(o, Cardinality(Perceptrons))

(* the number of perceptrons on the longest chain that ends in o *)
RECURSIVE Hops(_, _)
Hops(o, n) ==
    IF n = 0 \/ PerceptronSources(o) = {} THEN 1
    ELSE LET hs == {Hops(s, n - 1) : s \in PerceptronSources(o)}
         IN 1 + CHOOSE m \in hs : \A h \in hs : h <= m

ChainLength(o) == Hops(o, Cardinality(Perceptrons))

(* C26: with the perceptrons wired without a cycle, in either order in     *)
(* all_objects, and no event after the present state, the output_value of  *)
(* a perceptron at the end of a chain of k perceptrons has its final value *)
(* after k ticks and keeps it on all later ticks.                          *)
C26_SettlesWithinChainLength ==
    (phase = "events" /\ Acyclic) =>
        \A o \in Perceptrons : \A j \in ChainLength(o)..MaxTicks :
            Ticks(j, St).output_value[o] = Ticks(ChainLength(o), St).output_value[o]

(* switch1 has just been flipped and feeds perceptron2, which feeds        *)
(* perceptron1, the earlier of the two in all_objects: perceptron1 takes   *)
(* its final value at the second tick and not before                       *)
C26_Witness ==
    /\ last = "toggle"
    /\ Acyclic
    /\ input_connections["perceptron2"][1] = "switch1"
    /\ input_connections["perceptron1"][1] = "perceptron2"
    /\ ChainLength("perceptron1") = 2
    /\ Ticks(1, St).output_value["perceptron1"] # Ticks(2, St).output_value["perceptron1"]

---------------------------------------------------------------------------
(* C27: constructing a Perceptron with any requested input count, also 0, *)
(* a negative count or a count above 8, and the weights left to be         *)
(* sampled, yields a Perceptron with num_inputs in 1..8 and with weights   *)
(* and input_connections of length num_inputs.                             *)

WellFormedPerceptron(o, s) ==
    /\ o \in DOMAIN s.num_inputs
    /\ s.num_inputs[o] \in min_inputs..max_inputs
    /\ Len(s.weights[o]) = s.num_inputs[o]
    /\ Len(s.input_connections[o]) = s.num_inputs[o]

C27_ConstructedWithinLimits ==
    /\ last = "constructed" => WellFormedPerceptron("perceptron1", St)
    /\ phase = "construct" =>
         \A count \in CtorCounts, gb \in CtorBiases, rw \in CtorDraws, rb \in BiasVals :
             LET r == CtorCall(count, <<>>, gb, rw, rb)
             IN ~r.raised /\ WellFormedPerceptron("perceptron1", r.st)

=============================================================================
